---- MODULE Spec2Model ----
(***************************************************************************)
(* Ride matching and route composition of mapbox_optimizer:                *)
(* models.py (MapboxOptimizer, User/Driver/Rider, Ride, RideManager).      *)
(*                                                                         *)
(* A Ride object is created exactly once per Driver (_create_solo_ride)    *)
(* and never replaced, so a Ride is identified by the Driver that owns it. *)
(* Durations are minutes, distances kilometres, as the optimizer returns   *)
(* them; the oracle's raw replies carry seconds and metres.                *)
(***************************************************************************)
EXTENDS Integers, Sequences, FiniteSets, TLC

\* ------------------------------------------------------------------ bounds
MaxDuration == 4        \* the oracle's trips last 1..MaxDuration minutes
MaxFailed == 1          \* failed_attempts entries kept between two reporting reads
MaxRidersCap == 2       \* the largest max_riders of a driver
MaxEvents == 2          \* clicks waiting in the event queue
MaxCallers == 2         \* engine calls in progress at once, when a caller overlaps them
MaxPool == 12           \* riders of the large pool, and the seats its driver offers

\* ------------------------------------------------------------------ universe
Drivers == {"d1", "d2"}
Riders == {"r1", "r2", "r3"}
NoRide == "None"                                  \* User._ride = None

HomeOf(u) ==
  CASE u = "d1" -> <<10, 1>>
    [] u = "d2" -> <<20, 1>>
    [] u = "r1" -> <<11, 1>>
    [] u = "r2" -> <<12, 1>>
    [] OTHER    -> <<11, 1>>                     \* r3 lives where r1 lives

\* Optional[Dict] results of the optimizer, plus an escaping exception
None == [status |-> "none"]
Raised == [status |-> "raise"]
Some(v) == [status |-> "ok", value |-> v]

Durations == 1..MaxDuration
DirectDurations == {2}      \* solo duration at driver construction
RequeryDurations == {2, 3}  \* what direct_route answers when asked again

\* geometries are sequences of [lon, lat] points, as GeoJSON gives them
GeomA == << <<1, 10>>, <<9, 48>> >>
GeomB == << <<1, 10>>, <<1, 11>>, <<9, 48>> >>
GeomSnapped == << <<1, 10>>, <<2, 11>>, <<9, 48>> >>

\* ------------------------------------------------------------------ helpers
SeqToSet(s) == {s[i] : i \in 1..Len(s)}

RECURSIVE SelectOthers(_, _)
\* [r for r in riders if r != rider]
SelectOthers(s, x) ==
  IF s = <<>> THEN <<>>
  ELSE IF Head(s) = x THEN SelectOthers(Tail(s), x)
       ELSE <<Head(s)>> \o SelectOthers(Tail(s), x)

\* [[lat, lon] for lon, lat in geometry]
SwapAxes(geometry) == [i \in 1..Len(geometry) |-> <<geometry[i][2], geometry[i][1]>>]

\* route.get(key, default)
Get(route, key, default) == IF key \in DOMAIN route THEN route[key] ELSE default

\* ------------------------------------------------------------------ oracle replies
\* What the three Mapbox endpoints may answer.  "error" is a
\* requests.RequestException, "malformed" a 200 reply lacking a key the
\* client reads (KeyError, which the client does not catch).
DirectReplies ==
  {[kind |-> "error"], [kind |-> "malformed"]}
  \cup {[kind |-> "routes", distance_m |-> 5 * 1000, duration_s |-> t * 60,
         geometry |-> GeomA] : t \in RequeryDurations}

Identity(n) == [i \in 1..n |-> i - 1]
\* the other visiting order of n stops: the rider stops reversed
Reversed(n) == [i \in 1..n |-> IF i = 1 \/ i = n THEN i - 1 ELSE n - i]

Trip(t, dist, g, w, k) ==
  [kind |-> "trips", distance_m |-> dist * 1000, duration_s |-> t * 60,
   geometry |-> g, waypoints |-> w, legs |-> [i \in 1..k |-> 60]]

\* Replies to an optimized-trips request for n coordinates: the failures
\* (a reply without trips is handled as the transport error is), the usual
\* trip in every duration from the solo duration up, a one-minute trip that
\* visits the riders in the other order over another geometry and distance
\* and lists one leg too many, and a trip whose waypoint list is one short.
OptimizedReplies(n) ==
  {[kind |-> "error"], [kind |-> "malformed"]}
  \cup {Trip(t, 5, GeomA, Identity(n), n - 1) : t \in Durations \ {1}}
  \cup {Trip(1, 6, GeomB, Reversed(n), n),
        Trip(2, 5, GeomA, Identity(n - 1), n - 1)}

\* Replies to a map-matching request for coordinates ([lat, lon] points):
\* the failures, and a matching that leaves a route already on the road
\* (GeomA) as it is and moves the other one (GeomB) onto GeomSnapped.
SnapReplies(coordinates) ==
  {[kind |-> "error"], [kind |-> "malformed"],
   [kind |-> "matchings",
    geometry |-> IF SwapAxes(coordinates) = GeomB THEN GeomSnapped
                 ELSE SwapAxes(coordinates)]}

\* ------------------------------------------------------------------ MapboxOptimizer
calculate_direct_route(start, end, reply) ==
  CASE reply.kind = "error" -> None
    [] reply.kind = "malformed" -> Raised
    [] reply.kind = "routes" ->
         Some([distance |-> reply.distance_m \div 1000,
               duration |-> reply.duration_s \div 60,
               geometry |-> reply.geometry])
    [] OTHER -> None

\* TRUE iff the call issues an HTTP request
OptimizedContacts(coordinates) == ~(Len(coordinates) < 2 \/ Len(coordinates) > 12)

\* calculate_optimized_route without the comparison of the waypoint count
\* with the number of coordinates sent
calculate_optimized_route_Unchecked(coordinates, reply) ==
  IF Len(coordinates) < 2 \/ Len(coordinates) > 12 THEN None
  ELSE CASE reply.kind = "error" -> None
         [] reply.kind = "malformed" -> Raised
         [] reply.kind = "trips" ->
              Some([geometry |-> reply.geometry,
                    distance |-> reply.distance_m \div 1000,
                    duration |-> reply.duration_s \div 60,
                    waypoint_indices |-> reply.waypoints,
                    leg_durations |->
                      [i \in 1..Len(reply.legs) |-> reply.legs[i] \div 60]])
         [] OTHER -> None

\* calculate_optimized_route without the upper limit on the coordinates
calculate_optimized_route_NoUpperLimit(coordinates, reply) ==
  IF Len(coordinates) < 2 THEN None
  ELSE CASE reply.kind = "error" -> None
         [] reply.kind = "malformed" -> Raised
         [] reply.kind = "trips" ->
              IF Len(reply.waypoints) # Len(coordinates) THEN None
              ELSE Some([geometry |-> reply.geometry,
                         distance |-> reply.distance_m \div 1000,
                         duration |-> reply.duration_s \div 60,
                         waypoint_indices |-> reply.waypoints,
                         leg_durations |->
                           [i \in 1..Len(reply.legs) |-> reply.legs[i] \div 60]])
         [] OTHER -> None

calculate_optimized_route(coordinates, reply) ==
  IF Len(coordinates) < 2 \/ Len(coordinates) > 12 THEN None
  ELSE CASE reply.kind = "error" -> None
         [] reply.kind = "malformed" -> Raised
         [] reply.kind = "trips" ->
              IF Len(reply.waypoints) # Len(coordinates) THEN None
              ELSE Some([geometry |-> reply.geometry,
                         distance |-> reply.distance_m \div 1000,
                         duration |-> reply.duration_s \div 60,
                         waypoint_indices |-> reply.waypoints,
                         leg_durations |->
                           [i \in 1..Len(reply.legs) |-> reply.legs[i] \div 60]])
         [] OTHER -> None

\* TRUE iff the call issues an HTTP request
SnapContacts(coordinates) == ~(coordinates = <<>> \/ Len(coordinates) < 2)

match_route_to_roads(coordinates, reply) ==
  IF coordinates = <<>> \/ Len(coordinates) < 2 THEN None
  ELSE CASE reply.kind = "error" -> None
         [] reply.kind = "malformed" -> Raised
         [] reply.kind = "matchings" -> Some([geometry |-> reply.geometry])
         [] OTHER -> None

\* ------------------------------------------------------------------ state
VARIABLES
  drivers,          \* Driver objects: workplace, max_detour_minutes, max_riders, ride
  riders,           \* Rider objects: workplace, home, ride
  rides,            \* the Ride each driver owns
  failed_attempts,  \* RideManager.failed_attempts
  last,             \* the call that produced this state: its return value, whether
                    \* an exception escaped it, the oracle requests it issued
  events,           \* the clicks waiting in the event queue of the GUI thread
  stack,            \* the engine calls the GUI thread is inside, innermost first,
                    \* each waiting for the answer to an oracle request
  candidates        \* the drivers and riders generate_random_drivers_and_riders
                    \* has still to construct

vars == <<drivers, riders, rides, failed_attempts, last, events, stack, candidates>>

\* ------------------------------------------------------------------ Ride
\* the detour without its floor at zero
Detour_Unfloored(duration, direct_duration) == duration - direct_duration

\* self.duration - direct_duration if self.duration > direct_duration else 0.0
Detour(duration, direct_duration) ==
  IF duration > direct_duration THEN duration - direct_duration ELSE 0

Homes(rs) == [i \in 1..Len(rs) |-> riders[rs[i]].home]

\* Ride.__init__
NewRide(d, home, workplace, rs, route, direct_duration) ==
  [driver |-> d,
   riders |-> rs,
   start |-> home,
   stops |-> [i \in 1..Len(rs) |-> HomeOf(rs[i])],
   destination |-> workplace,
   route |-> route,
   matched_geometry |-> Get(route, "matched_geometry", Get(route, "geometry", <<>>)),
   distance |-> Get(route, "distance", 0),
   duration |-> Get(route, "duration", 0),
   direct_duration |-> direct_duration,
   detour |-> Detour(Get(route, "duration", 0), direct_duration),
   waypoint_order |-> Get(route, "waypoint_indices", <<>>),
   leg_durations |-> Get(route, "leg_durations", <<>>)]

\* create_solo_ride whose route record lacks the leg durations
create_solo_ride_NoLegs(d, home, workplace, direct_route) ==
  LET route == [distance |-> direct_route.distance,
                duration |-> direct_route.duration,
                waypoint_indices |-> <<0, 1>>,
                geometry |-> direct_route.geometry,
                matched_geometry |-> direct_route.geometry]
  IN [NewRide(d, home, workplace, <<>>, route, direct_route.duration)
        EXCEPT !.matched_geometry = direct_route.geometry]

\* Driver._create_solo_ride, given the direct route the oracle produced
create_solo_ride(d, home, workplace, direct_route) ==
  LET route == [distance |-> direct_route.distance,
                duration |-> direct_route.duration,
                waypoint_indices |-> <<0, 1>>,
                leg_durations |-> <<direct_route.duration>>,
                geometry |-> direct_route.geometry,
                matched_geometry |-> direct_route.geometry]
  IN [NewRide(d, home, workplace, <<>>, route, direct_route.duration)
        EXCEPT !.matched_geometry = direct_route.geometry]

\* MatchedGeometry that leaves the Ride without a geometry when the road-snap
\* call fails
MatchedGeometry_NoFallback(route, snap) ==
  IF Get(route, "geometry", <<>>) # <<>> THEN
    LET matched_route == match_route_to_roads(SwapAxes(route.geometry), snap)
    IN CASE matched_route.status = "ok" -> matched_route.value.geometry
         [] OTHER -> <<>>
  ELSE Get(route, "geometry", <<>>)

\* the road-snapped geometry update_ride stores (lines 213-222)
MatchedGeometry(route, snap) ==
  IF Get(route, "geometry", <<>>) # <<>> THEN
    LET matched_route == match_route_to_roads(SwapAxes(route.geometry), snap)
    IN CASE matched_route.status = "ok" -> matched_route.value.geometry
         [] matched_route.status = "raise" -> Get(route, "geometry", <<>>)
         [] OTHER -> route.geometry
  ELSE Get(route, "geometry", <<>>)

\* update_ride that takes the duration of a route without riders as the new
\* direct_duration
update_ride_Recomputes(ride, rs, route, direct_duration, snap) ==
  [ride EXCEPT
     !.riders = rs,
     !.stops = Homes(rs),
     !.route = route,
     !.distance = Get(route, "distance", 0),
     !.duration = Get(route, "duration", 0),
     !.direct_duration = IF rs = <<>> THEN Get(route, "duration", 0) ELSE direct_duration,
     !.detour = Detour(Get(route, "duration", 0), direct_duration),
     !.waypoint_order = Get(route, "waypoint_indices", <<>>),
     !.leg_durations = Get(route, "leg_durations", <<>>),
     !.matched_geometry = MatchedGeometry(route, snap)]

\* update_ride that leaves the list of stops as it was
update_ride_StaleStops(ride, rs, route, direct_duration, snap) ==
  [ride EXCEPT
     !.riders = rs,
     !.route = route,
     !.distance = Get(route, "distance", 0),
     !.duration = Get(route, "duration", 0),
     !.direct_duration = direct_duration,
     !.detour = Detour(Get(route, "duration", 0), direct_duration),
     !.waypoint_order = Get(route, "waypoint_indices", <<>>),
     !.leg_durations = Get(route, "leg_durations", <<>>),
     !.matched_geometry = MatchedGeometry(route, snap)]

\* Ride.update_ride
update_ride(ride, rs, route, direct_duration, snap) ==
  [ride EXCEPT
     !.riders = rs,
     !.stops = Homes(rs),
     !.route = route,
     !.distance = Get(route, "distance", 0),
     !.duration = Get(route, "duration", 0),
     !.direct_duration = direct_duration,
     !.detour = Detour(Get(route, "duration", 0), direct_duration),
     !.waypoint_order = Get(route, "waypoint_indices", <<>>),
     !.leg_durations = Get(route, "leg_durations", <<>>),
     !.matched_geometry = MatchedGeometry(route, snap)]

\* lines 203-211 of update_ride: the fields written before the road-snap
\* request is made
update_ride_fields(ride, rs, route, direct_duration) ==
  [ride EXCEPT
     !.riders = rs,
     !.stops = Homes(rs),
     !.route = route,
     !.distance = Get(route, "distance", 0),
     !.duration = Get(route, "duration", 0),
     !.direct_duration = direct_duration,
     !.detour = Detour(Get(route, "duration", 0), direct_duration),
     !.waypoint_order = Get(route, "waypoint_indices", <<>>),
     !.leg_durations = Get(route, "leg_durations", <<>>)]

\* the oracle requests update_ride issues
UpdateCalls(route) ==
  IF Get(route, "geometry", <<>>) # <<>> /\ SnapContacts(SwapAxes(route.geometry))
  THEN <<"road_snap">> ELSE <<>>

\* ------------------------------------------------------------------ Init
\* The pool after construction.  Drivers d1 and d2 and riders r1 and r2 work
\* at the same place, rider r3 at the other one; d1 accepts one minute of
\* detour and no rider or MaxRidersCap riders, d2 no detour and one rider.  Every
\* driver owns the solo Ride built from its direct route, no rider has a
\* ride, nothing has been declined.
WorkplaceOf(u) == IF u = "r3" THEN <<49, 9>> ELSE <<48, 9>>

SoloReply(t) ==
  [kind |-> "routes", distance_m |-> 5 * 1000, duration_s |-> t * 60, geometry |-> GeomA]

\* the Ride driver d owns when its construction returns
SoloRide(d) ==
  LET t == CHOOSE t \in DirectDurations : TRUE
  IN create_solo_ride(d, HomeOf(d), WorkplaceOf(d),
       calculate_direct_route(HomeOf(d), WorkplaceOf(d), SoloReply(t)).value)

Init ==
  /\ \E mr \in {0, MaxRidersCap} :
       drivers = [d \in Drivers |->
                    [workplace |-> WorkplaceOf(d),
                     max_detour_minutes |-> IF d = "d1" THEN 1 ELSE 0,
                     max_riders |-> IF d = "d1" THEN mr ELSE 1,
                     ride |-> d]]
  /\ \E t \in DirectDurations :
       rides = [d \in Drivers |->
                  create_solo_ride(d, HomeOf(d), WorkplaceOf(d),
                    calculate_direct_route(HomeOf(d), WorkplaceOf(d), SoloReply(t)).value)]
  /\ riders = [r \in Riders |->
                 [workplace |-> WorkplaceOf(r), home |-> HomeOf(r), ride |-> NoRide]]
  /\ failed_attempts = <<>>
  /\ last = [op |-> "init"]
  /\ events = <<>>
  /\ stack = <<>>
  /\ candidates = <<>>

\* ------------------------------------------------------------------ pool construction
\* generate_random_drivers_and_riders builds the drivers, then the riders, one
\* candidate after the other; each constructor asks the oracle for the
\* candidate's direct route.

\* Driver.__init__ (lines 126-139): the Ride the new driver holds; None when
\* the direct route was not produced or its computation raised
Driver_init(d, reply) ==
  LET direct_route == calculate_direct_route(HomeOf(d), WorkplaceOf(d), reply)
  IN IF direct_route.status = "ok"
     THEN Some(create_solo_ride(d, HomeOf(d), WorkplaceOf(d), direct_route.value))
     ELSE None

\* Rider._create_direct_route (lines 167-176): the rider's direct route; None
\* when it was not produced or its computation raised
create_direct_route(r, reply) ==
  LET direct_route == calculate_direct_route(HomeOf(r), WorkplaceOf(r), reply)
  IN IF direct_route.status = "ok" THEN direct_route ELSE None

\* a pool that takes every driver constructed
DriverAdmitted_Unchecked(ride) == TRUE

\* if driver.ride is not None: drivers.append(driver)
DriverAdmitted(ride) == ride # None

\* if rider.direct_route is not None: riders.append(rider)
RiderAdmitted(direct_route) == direct_route # None

\* one pass of the loop over the drivers (lines 452-477)
CreateDriver ==
  /\ candidates # <<>>
  /\ Head(candidates) \in Drivers
  /\ candidates' = Tail(candidates)
  /\ \E reply \in DirectReplies :
       LET d == Head(candidates)
           ride == Driver_init(d, reply)
           driver == [workplace |-> WorkplaceOf(d),
                      max_detour_minutes |-> IF d = "d1" THEN 1 ELSE 0,
                      max_riders |-> IF d = "d1" THEN MaxRidersCap ELSE 1,
                      ride |-> IF ride = None THEN NoRide ELSE d]
       IN /\ drivers' = IF DriverAdmitted(ride) THEN drivers @@ (d :> driver) ELSE drivers
          /\ rides' = IF DriverAdmitted(ride) /\ ride # None
                       THEN rides @@ (d :> ride.value) ELSE rides
          /\ last' = [op |-> "driver", served |-> reply.kind = "routes"]
  /\ UNCHANGED <<riders, failed_attempts, events, stack>>

\* one pass of the loop over the riders (lines 479-503)
CreateRider ==
  /\ candidates # <<>>
  /\ Head(candidates) \in Riders
  /\ candidates' = Tail(candidates)
  /\ \E reply \in DirectReplies :
       LET r == Head(candidates)
           direct_route == create_direct_route(r, reply)
           rider == [workplace |-> WorkplaceOf(r), home |-> HomeOf(r), ride |-> NoRide,
                     direct_route |-> direct_route]
       IN /\ riders' = IF RiderAdmitted(direct_route) THEN riders @@ (r :> rider) ELSE riders
          /\ last' = [op |-> "rider", served |-> reply.kind = "routes"]
  /\ UNCHANGED <<drivers, rides, failed_attempts, events, stack>>

\* the empty lists and the candidates of the two loops
PoolInit ==
  /\ drivers = <<>>
  /\ rides = <<>>
  /\ riders = <<>>
  /\ failed_attempts = <<>>
  /\ last = [op |-> "init"]
  /\ events = <<>>
  /\ stack = <<>>
  /\ candidates = <<"d1", "d2", "r1", "r2", "r3">>

PoolNext == CreateDriver \/ CreateRider

PoolSpec == PoolInit /\ [][PoolNext]_vars

\* ------------------------------------------------------------------ RideManager
\* AddPrecheck with the capacity test off by one (> for >=)
AddPrecheck_OffByOne(d, r) ==
  IF riders[r].workplace # drivers[rides[d].driver].workplace THEN "workplace_mismatch"
  ELSE IF riders[r].ride # NoRide THEN "already_has_ride"
  ELSE IF Len(rides[d].riders) > drivers[rides[d].driver].max_riders THEN "ride_full"
  ELSE ""

\* AddPrecheck without the already-assigned test
AddPrecheck_NoAssignedCheck(d, r) ==
  IF riders[r].workplace # drivers[rides[d].driver].workplace THEN "workplace_mismatch"
  ELSE IF Len(rides[d].riders) >= drivers[rides[d].driver].max_riders THEN "ride_full"
  ELSE ""

\* AddPrecheck without the workplace test
AddPrecheck_NoWorkplaceCheck(d, r) ==
  IF riders[r].ride # NoRide THEN "already_has_ride"
  ELSE IF Len(rides[d].riders) >= drivers[rides[d].driver].max_riders THEN "ride_full"
  ELSE ""

\* AddPrecheck with the capacity test made first
AddPrecheck_CapacityFirst(d, r) ==
  IF Len(rides[d].riders) >= drivers[rides[d].driver].max_riders THEN "ride_full"
  ELSE IF riders[r].workplace # drivers[rides[d].driver].workplace THEN "workplace_mismatch"
  ELSE IF riders[r].ride # NoRide THEN "already_has_ride"
  ELSE ""

\* AddPrecheck without the capacity test: a full ride goes on to the oracle
AddPrecheck_NoCapacityCheck(d, r) ==
  IF riders[r].workplace # drivers[rides[d].driver].workplace THEN "workplace_mismatch"
  ELSE IF riders[r].ride # NoRide THEN "already_has_ride"
  ELSE ""

\* The checks add_rider_to_ride makes before it asks the oracle (lines
\* 372-385): the reason of the first failing check, "" when all pass.
AddPrecheck(d, r) ==
  IF riders[r].workplace # drivers[rides[d].driver].workplace THEN "workplace_mismatch"
  ELSE IF riders[r].ride # NoRide THEN "already_has_ride"
  ELSE IF Len(rides[d].riders) >= drivers[rides[d].driver].max_riders THEN "ride_full"
  ELSE ""

\* the budget test left out
ExceedsDetour_Never(new_duration, max_allowed_duration) == FALSE

\* the budget test made exclusive (>= for >)
ExceedsDetour_Exclusive(new_duration, max_allowed_duration) ==
  new_duration >= max_allowed_duration

\* new_route['duration'] > max_allowed_duration (line 392)
ExceedsDetour(new_duration, max_allowed_duration) == new_duration > max_allowed_duration

\* [ride.start] + [rider.home for rider in new_riders] + [ride.destination]
Coordinates(ride, new_riders) == <<ride.start>> \o Homes(new_riders) \o <<ride.destination>>

\* What a call leaves behind: its return value, whether an exception is in
\* flight, the reasons it appended to failed_attempts, the oracle requests it
\* issued, and the objects it wrote.
Outcome(result, raised, reasons, calls, ride, rs, ds) ==
  [result |-> result, raised |-> raised, reasons |-> reasons, calls |-> calls,
   ride |-> ride, riders |-> rs, drivers |-> ds]

\* Stamp that forgets to clear the removed rider's reference
Stamp_NoClear(d, ride, added, removed) ==
  [x \in DOMAIN riders |->
     IF x \in added \/ x \in SeqToSet(ride.riders) THEN [riders[x] EXCEPT !.ride = d]
     ELSE riders[x]]

\* rider.ride = None for the removed rider, new_rider.ride = ride for the
\* added one, then rider.ride = ride for every rider in ride.riders
Stamp(d, ride, added, removed) ==
  [x \in DOMAIN riders |->
     IF x \in added \/ x \in SeqToSet(ride.riders) THEN [riders[x] EXCEPT !.ride = d]
     ELSE IF x \in removed THEN [riders[x] EXCEPT !.ride = NoRide]
     ELSE riders[x]]

\* ride.driver.ride = ride
StampDriver(d, ride) == [drivers EXCEPT ![ride.driver].ride = d]

\* AddTry that writes the Ride before it validates the new route
AddTry_WriteFirst(d, r, reply, snap) ==
  LET ride == rides[d]
      pre == AddPrecheck(d, r)
      max_allowed_duration == ride.direct_duration + drivers[ride.driver].max_detour_minutes
      new_riders == Append(ride.riders, r)
      coordinates == Coordinates(ride, new_riders)
      new_route == calculate_optimized_route(coordinates, reply)
      asked == IF OptimizedContacts(coordinates) THEN <<"optimized_route">> ELSE <<>>
      updated == update_ride(ride, new_riders, new_route.value, ride.direct_duration, snap)
  IN IF pre # "" THEN
       Outcome(FALSE, FALSE, <<pre>>, <<>>, ride, riders, drivers)
     ELSE IF new_route.status = "raise" THEN
       Outcome(FALSE, TRUE, <<>>, asked, ride, riders, drivers)
     ELSE IF new_route.status = "none" THEN
       Outcome(FALSE, FALSE, <<"exceeds_max_detour">>, asked, ride, riders, drivers)
     ELSE IF ExceedsDetour(new_route.value.duration, max_allowed_duration) THEN
       Outcome(FALSE, FALSE, <<"exceeds_max_detour">>, asked \o UpdateCalls(new_route.value),
               updated, riders, drivers)
     ELSE
       Outcome(TRUE, FALSE, <<>>, asked \o UpdateCalls(new_route.value),
               updated, Stamp(d, updated, {r}, {}), StampDriver(d, updated))

\* The try block of add_rider_to_ride (lines 372-402).
AddTry(d, r, reply, snap) ==
  LET ride == rides[d]
      pre == AddPrecheck(d, r)
      max_allowed_duration == ride.direct_duration + drivers[ride.driver].max_detour_minutes
      new_riders == Append(ride.riders, r)
      coordinates == Coordinates(ride, new_riders)
      new_route == calculate_optimized_route(coordinates, reply)
      asked == IF OptimizedContacts(coordinates) THEN <<"optimized_route">> ELSE <<>>
      updated == update_ride(ride, new_riders, new_route.value, ride.direct_duration, snap)
  IN IF pre # "" THEN
       Outcome(FALSE, FALSE, <<pre>>, <<>>, ride, riders, drivers)
     ELSE IF new_route.status = "raise" THEN
       Outcome(FALSE, TRUE, <<>>, asked, ride, riders, drivers)
     ELSE IF new_route.status = "none"
               \/ ExceedsDetour(new_route.value.duration, max_allowed_duration) THEN
       Outcome(FALSE, FALSE, <<"exceeds_max_detour">>, asked, ride, riders, drivers)
     ELSE
       Outcome(TRUE, FALSE, <<>>, asked \o UpdateCalls(new_route.value),
               updated, Stamp(d, updated, {r}, {}), StampDriver(d, updated))

\* except Exception (lines 403-406): log, record "Error adding ...", return False
AddExcept(out) ==
  IF out.raised
  THEN [out EXCEPT !.raised = FALSE, !.result = FALSE, !.reasons = out.reasons \o <<"error">>]
  ELSE out

\* what one call of add_rider_to_ride does, given the oracle's replies
AddOut(d, r, reply, snap) == AddExcept(AddTry(d, r, reply, snap))

add_rider_to_ride(d, r, reply, snap) ==
  LET out == AddOut(d, r, reply, snap)
  IN /\ Len(failed_attempts) + Len(out.reasons) <= MaxFailed
     /\ failed_attempts' = failed_attempts \o out.reasons
     /\ last' = [op |-> "add", result |-> out.result, raised |-> out.raised,
                 calls |-> out.calls]
     /\ rides' = [rides EXCEPT ![d] = out.ride]
     /\ riders' = out.riders
     /\ drivers' = out.drivers

\* RemoveTry that drops the rider from the list before the route is recomputed
RemoveTry_WriteFirst(d, r, direct_reply, reply, snap) ==
  LET ride == rides[d]
      new_riders == SelectOthers(ride.riders, r)
      coordinates == Coordinates(ride, new_riders)
      direct == calculate_direct_route(ride.start, ride.destination, direct_reply)
      solo_route == [distance |-> direct.value.distance,
                     duration |-> direct.value.duration,
                     waypoint_indices |-> <<0, 1>>,
                     leg_durations |-> <<direct.value.duration>>,
                     geometry |-> direct.value.geometry,
                     matched_geometry |-> direct.value.geometry]
      optimized == calculate_optimized_route(coordinates, reply)
      fetched == IF Len(coordinates) = 2 THEN direct ELSE optimized
      asked == IF Len(coordinates) = 2 THEN <<"direct_route">>
               ELSE IF OptimizedContacts(coordinates) THEN <<"optimized_route">> ELSE <<>>
      new_route == IF Len(coordinates) = 2 THEN solo_route ELSE optimized.value
      updated == update_ride(ride, new_riders, new_route, ride.direct_duration, snap)
      dropped == [ride EXCEPT !.riders = new_riders, !.stops = Homes(new_riders)]
  IN IF r \notin SeqToSet(ride.riders) THEN
       Outcome(FALSE, FALSE, <<>>, <<>>, ride, riders, drivers)
     ELSE IF fetched.status = "raise" THEN
       Outcome(FALSE, TRUE, <<>>, asked, dropped, riders, drivers)
     ELSE IF fetched.status = "none" THEN
       Outcome(FALSE, FALSE, <<>>, asked, dropped, riders, drivers)
     ELSE
       Outcome(TRUE, FALSE, <<>>, asked \o UpdateCalls(new_route),
               updated, Stamp(d, updated, {}, {r}), StampDriver(d, updated))

\* RemoveTry that asks optimized_route whatever the number of riders left
RemoveTry_AlwaysOptimized(d, r, direct_reply, reply, snap) ==
  LET ride == rides[d]
      new_riders == SelectOthers(ride.riders, r)
      coordinates == Coordinates(ride, new_riders)
      optimized == calculate_optimized_route(coordinates, reply)
      asked == IF OptimizedContacts(coordinates) THEN <<"optimized_route">> ELSE <<>>
      updated == update_ride(ride, new_riders, optimized.value, ride.direct_duration, snap)
  IN IF r \notin SeqToSet(ride.riders) THEN
       Outcome(FALSE, FALSE, <<>>, <<>>, ride, riders, drivers)
     ELSE IF optimized.status = "raise" THEN
       Outcome(FALSE, TRUE, <<>>, asked, ride, riders, drivers)
     ELSE IF optimized.status = "none" THEN
       Outcome(FALSE, FALSE, <<>>, asked, ride, riders, drivers)
     ELSE
       Outcome(TRUE, FALSE, <<>>, asked \o UpdateCalls(optimized.value),
               updated, Stamp(d, updated, {}, {r}), StampDriver(d, updated))

\* The try block of remove_rider_from_ride (lines 410-441).
RemoveTry(d, r, direct_reply, reply, snap) ==
  LET ride == rides[d]
      new_riders == SelectOthers(ride.riders, r)
      coordinates == Coordinates(ride, new_riders)
      direct == calculate_direct_route(ride.start, ride.destination, direct_reply)
      solo_route == [distance |-> direct.value.distance,
                     duration |-> direct.value.duration,
                     waypoint_indices |-> <<0, 1>>,
                     leg_durations |-> <<direct.value.duration>>,
                     geometry |-> direct.value.geometry,
                     matched_geometry |-> direct.value.geometry]
      optimized == calculate_optimized_route(coordinates, reply)
      fetched == IF Len(coordinates) = 2 THEN direct ELSE optimized
      asked == IF Len(coordinates) = 2 THEN <<"direct_route">>
               ELSE IF OptimizedContacts(coordinates) THEN <<"optimized_route">> ELSE <<>>
      new_route == IF Len(coordinates) = 2 THEN solo_route ELSE optimized.value
      updated == update_ride(ride, new_riders, new_route, ride.direct_duration, snap)
  IN IF r \notin SeqToSet(ride.riders) THEN
       Outcome(FALSE, FALSE, <<>>, <<>>, ride, riders, drivers)
     ELSE IF fetched.status = "raise" THEN
       Outcome(FALSE, TRUE, <<>>, asked, ride, riders, drivers)
     ELSE IF fetched.status = "none" THEN
       Outcome(FALSE, FALSE, <<>>, asked, ride, riders, drivers)
     ELSE
       Outcome(TRUE, FALSE, <<>>, asked \o UpdateCalls(new_route),
               updated, Stamp(d, updated, {}, {r}), StampDriver(d, updated))

\* except Exception (lines 442-444): log, return False
RemoveExcept(out) ==
  IF out.raised THEN [out EXCEPT !.raised = FALSE, !.result = FALSE] ELSE out

\* what one call of remove_rider_from_ride does, given the oracle's replies
RemoveOut(d, r, direct_reply, reply, snap) ==
  RemoveExcept(RemoveTry(d, r, direct_reply, reply, snap))

remove_rider_from_ride(d, r, direct_reply, reply, snap) ==
  LET out == RemoveOut(d, r, direct_reply, reply, snap)
  IN /\ failed_attempts' = failed_attempts \o out.reasons
     /\ last' = [op |-> "remove", result |-> out.result, raised |-> out.raised,
                 calls |-> out.calls]
     /\ rides' = [rides EXCEPT ![d] = out.ride]
     /\ riders' = out.riders
     /\ drivers' = out.drivers

\* ------------------------------------------------------------------ matching score
\* Scores are floats between 0.0 and 1.0; the model counts them in
\* thousandths, so Unit is 1.0, and distances in kilometres.
Unit == 1000
Max(a, b) == IF a > b THEN a ELSE b
Min(a, b) == IF a < b THEN a ELSE b

RECURSIVE Root(_, _, _)
\* the largest k in lo..hi with k * k <= n
Root(n, lo, hi) ==
  IF lo >= hi THEN lo
  ELSE LET mid == (lo + hi + 1) \div 2
       IN IF mid * mid <= n THEN Root(n, mid, hi) ELSE Root(n, lo, mid - 1)

\* math.sqrt((rider_home[0] - lat)**2 + (rider_home[1] - lon)**2) * 111 for a
\* point [lon, lat], in kilometres (the root is taken to a hundredth of a degree)
PointDistance(rider_home, point) ==
  LET q == (rider_home[1] - point[2]) * (rider_home[1] - point[2])
           + (rider_home[2] - point[1]) * (rider_home[2] - point[1])
      whole == Root(q, 0, Min(q, 1000))
  IN (Root(q * 10000, 100 * whole, 100 * whole + 99) * 111) \div 100

\* float('inf')
Inf == 1000000

RECURSIVE ClosestDistance(_, _)
\* the loop over driver.ride.matched_geometry (lines 337-341)
ClosestDistance(rider_home, geometry) ==
  IF geometry = <<>> THEN Inf
  ELSE Min(PointDistance(rider_home, Head(geometry)),
           ClosestDistance(rider_home, Tail(geometry)))

\* the score without its final clamp to [0, 1]
Score_NoClamp(time_score, closest_distance_score, distance_score) ==
  (700 * time_score + 200 * closest_distance_score + 100 * distance_score) \div 1000

\* w1 * time_score + w2 * closest_distance_score + w3 * distance_score with
\* weights 0.7, 0.2, 0.1, clamped to [0, 1] (lines 362-365)
Score(time_score, closest_distance_score, distance_score) ==
  Min(Max((700 * time_score + 200 * closest_distance_score + 100 * distance_score)
            \div 1000, 0), Unit)

\* the eligibility test without its test of the rider's ride reference
ScoreIneligible_NoAssignedTest(d, r) == riders[r].workplace # drivers[d].workplace

\* the eligibility test without its workplace comparison
ScoreIneligible_NoWorkplaceTest(d, r) == riders[r].ride # NoRide

\* rider.workplace != driver.workplace or rider.ride (line 332)
ScoreIneligible(d, r) ==
  riders[r].workplace # drivers[d].workplace \/ riders[r].ride # NoRide

\* max(0.0, 1.0 - detour_time / max_detour_minutes) if max_detour_minutes > 0
\* else 0.0 (line 357)
TimeScore(detour_time, max_detour_minutes) ==
  IF max_detour_minutes > 0
  THEN Max(0, Unit - (detour_time * Unit) \div max_detour_minutes)
  ELSE 0

\* max(0.0, 1.0 - detour_distance / distance) if distance > 0 else 0.0, where
\* distance is driver.ride.route.get('distance', 1.0) (line 358)
DistanceScore(detour_distance, distance) ==
  IF distance > 0
  THEN Max(0, Unit - (detour_distance * Unit) \div distance)
  ELSE 0

\* max(0.0, 1.0 - closest_distance / max_closest_distance) if
\* max_closest_distance > 0 else 0.0 (line 359)
ClosestDistanceScore(closest_distance, max_closest_distance) ==
  IF max_closest_distance > 0
  THEN Max(0, Unit - (closest_distance * Unit) \div max_closest_distance)
  ELSE 0

\* the three sub-scores calculate_matching_score computes for a route
\* new_route that passed the detour check (lines 353-359)
SubScores(d, r, new_route) ==
  LET ride == rides[drivers[d].ride]
      closest_distance == ClosestDistance(riders[r].home, ride.matched_geometry)
      max_closest_distance == 50
      detour_time == new_route.duration - ride.direct_duration
      detour_distance == new_route.distance - Get(ride.route, "distance", 0)
  IN [time_score |-> TimeScore(detour_time, drivers[d].max_detour_minutes),
      distance_score |-> DistanceScore(detour_distance, Get(ride.route, "distance", 1)),
      closest_distance_score |->
        ClosestDistanceScore(closest_distance, max_closest_distance)]

\* The try block of calculate_matching_score (lines 332-365) for driver d,
\* whose ride reference is drivers[d].ride.
ScoreTry(d, r, reply) ==
  LET ride == rides[drivers[d].ride]
      max_allowed_duration == ride.direct_duration + drivers[d].max_detour_minutes
      new_riders == Append(ride.riders, r)
      coordinates == Coordinates(ride, new_riders)
      new_route == calculate_optimized_route(coordinates, reply)
      asked == IF OptimizedContacts(coordinates) THEN <<"optimized_route">> ELSE <<>>
      sub == SubScores(d, r, new_route.value)
      time_score == sub.time_score
      distance_score == sub.distance_score
      closest_distance_score == sub.closest_distance_score
  IN IF ScoreIneligible(d, r) THEN
       Outcome(0, FALSE, <<>>, <<>>, ride, riders, drivers)
     ELSE IF new_route.status = "raise" THEN
       Outcome(0, TRUE, <<>>, asked, ride, riders, drivers)
     ELSE IF new_route.status = "none"
               \/ new_route.value.duration > max_allowed_duration THEN
       Outcome(0, FALSE, <<>>, asked, ride, riders, drivers)
     ELSE
       Outcome(Score(time_score, closest_distance_score, distance_score),
               FALSE, <<>>, asked, ride, riders, drivers)

\* ScoreExcept that records the error as add_rider_to_ride's handler does
ScoreExcept_Records(out) ==
  IF out.raised
  THEN [out EXCEPT !.raised = FALSE, !.result = 0, !.reasons = out.reasons \o <<"error">>]
  ELSE out

\* except Exception (lines 366-368): log, return 0.0
ScoreExcept(out) ==
  IF out.raised THEN [out EXCEPT !.raised = FALSE, !.result = 0] ELSE out

\* what one call of calculate_matching_score does, given the oracle's reply
ScoreOut(d, r, reply) == ScoreExcept(ScoreTry(d, r, reply))

calculate_matching_score(d, r, reply) ==
  LET out == ScoreOut(d, r, reply)
  IN /\ failed_attempts' = failed_attempts \o out.reasons
     /\ last' = [op |-> "score", result |-> out.result, raised |-> out.raised,
                 calls |-> out.calls]
     /\ rides' = [rides EXCEPT ![drivers[d].ride] = out.ride]
     /\ riders' = out.riders
     /\ drivers' = out.drivers

\* get_ordered_stops that ignores waypoint_order
get_ordered_stops_InputOrder(ride) ==
  LET n == Len(ride.riders) + 2
  IN [i \in 1..n |-> i - 1]

\* Ride.get_ordered_stops, as indices into [driver] + riders + [workplace]
get_ordered_stops(ride) ==
  LET n == Len(ride.riders) + 2
  IN IF Len(ride.waypoint_order) # n THEN [i \in 1..n |-> i - 1]
     ELSE ride.waypoint_order

\* names = [driver.name] + [rider.name for rider in riders] + [workplace_name]
StopNames(ride) == <<ride.driver>> \o ride.riders \o <<"workplace">>

\* the names of the stops get_ordered_stops returns: names[idx] for each entry
OrderedNames(ride) ==
  LET order == get_ordered_stops(ride)
  IN [i \in 1..Len(order) |-> StopNames(ride)[order[i] + 1]]

\* display_ride_info raises inside its try block (IndexError at
\* ordered_stops[i+1]) when there are more leg durations than pairs of
\* consecutive stops; the except clause then prints and returns.
DisplayRaises(ride) == Len(ride.leg_durations) > Len(get_ordered_stops(ride)) - 1

\* RideManager.display_ride_info: the reporting read; clears failed_attempts
display_ride_info(d) ==
  /\ failed_attempts' = IF DisplayRaises(rides[d]) THEN failed_attempts ELSE <<>>
  /\ last' = [op |-> "display"]
  /\ UNCHANGED <<drivers, riders, rides>>

\* ------------------------------------------------------------------ specification
\* the reply of a request that is not issued
Unasked == [kind |-> "error"]

\* the replies the oracle may give to the requests of one add call
AddReplies(d, r) ==
  IF AddPrecheck(d, r) = "" THEN OptimizedReplies(Len(rides[d].riders) + 3) ELSE {Unasked}

AddSnaps(d, r, reply) ==
  LET out == AddTry(d, r, reply, Unasked)
  IN IF out.result THEN SnapReplies(SwapAxes(out.ride.route.geometry)) ELSE {Unasked}

AddStep ==
  /\ UNCHANGED <<events, stack, candidates>>
  /\ \E d \in Drivers, r \in Riders :
       \E reply \in AddReplies(d, r) :
         \E snap \in AddSnaps(d, r, reply) :
           add_rider_to_ride(d, r, reply, snap)

\* the replies the oracle may give to the requests of one remove call
RemoveDirectReplies(d, r) ==
  IF r \in SeqToSet(rides[d].riders) /\ Len(rides[d].riders) = 1
  THEN DirectReplies ELSE {Unasked}

RemoveReplies(d, r) ==
  IF r \in SeqToSet(rides[d].riders) /\ Len(rides[d].riders) > 1
  THEN OptimizedReplies(Len(rides[d].riders) + 1) ELSE {Unasked}

RemoveSnaps(d, r, direct_reply, reply) ==
  LET out == RemoveTry(d, r, direct_reply, reply, Unasked)
  IN IF out.result THEN SnapReplies(SwapAxes(out.ride.route.geometry)) ELSE {Unasked}

RemoveStep ==
  /\ UNCHANGED <<events, stack, candidates>>
  /\ \E d \in Drivers, r \in Riders :
       \E direct_reply \in RemoveDirectReplies(d, r), reply \in RemoveReplies(d, r) :
         \E snap \in RemoveSnaps(d, r, direct_reply, reply) :
           remove_rider_from_ride(d, r, direct_reply, reply, snap)

\* the replies the oracle may give to the request of one scoring call
ScoreReplies(d, r) ==
  IF ScoreIneligible(d, r) THEN {Unasked} ELSE OptimizedReplies(Len(rides[d].riders) + 3)

\* The application scores candidates when it fills the rider dropdown, and
\* then no declined attempt is pending: its handlers clear failed_attempts
\* before they return.
ScoreStep ==
  /\ failed_attempts = <<>>
  /\ UNCHANGED <<events, stack, candidates>>
  /\ \E d \in Drivers, r \in Riders :
       \E reply \in ScoreReplies(d, r) :
         calculate_matching_score(d, r, reply)

DisplayStep == UNCHANGED <<events, stack, candidates>> /\ \E d \in Drivers : display_ride_info(d)

Next == AddStep \/ RemoveStep \/ DisplayStep

Spec == Init /\ [][Next]_vars

\* The pool of a company with two sites, and the scoring calls of the
\* application (update_rider_dropdown) between its adds and removes: driver
\* d2 works where rider r3 works, so that a rider of the other workplace can
\* have a ride.
ScoreWorkplaceOf(u) == IF u \in {"d2", "r3"} THEN <<49, 9>> ELSE <<48, 9>>

ScoreInit ==
  /\ drivers = [d \in Drivers |->
                  [workplace |-> ScoreWorkplaceOf(d),
                   max_detour_minutes |-> IF d = "d1" THEN 1 ELSE 0,
                   max_riders |-> IF d = "d1" THEN MaxRidersCap ELSE 1,
                   ride |-> d]]
  /\ \E t \in DirectDurations :
       rides = [d \in Drivers |->
                  create_solo_ride(d, HomeOf(d), ScoreWorkplaceOf(d),
                    calculate_direct_route(HomeOf(d), ScoreWorkplaceOf(d),
                                           SoloReply(t)).value)]
  /\ riders = [r \in Riders |->
                 [workplace |-> ScoreWorkplaceOf(r), home |-> HomeOf(r), ride |-> NoRide]]
  /\ failed_attempts = <<>>
  /\ last = [op |-> "init"]
  /\ events = <<>>
  /\ stack = <<>>
  /\ candidates = <<>>

ScoreNext == AddStep \/ RemoveStep \/ ScoreStep \/ DisplayStep

ScoreSpec == ScoreInit /\ [][ScoreNext]_vars

\* The assignment phase on the pool of one site: the application scores the
\* candidates of the selected driver, a rider is added, the Ride is read.
\* Driver d1 may offer no seat at all, so a full Ride has candidates.
MatchNext == ScoreStep \/ AddStep \/ DisplayStep

MatchSpec == Init /\ [][MatchNext]_vars

\* ------------------------------------------------------------------ the GUI thread
\* The application runs its handlers on the one GUI thread.  A click on the
\* Add or the Remove button is queued; the handler reads the selected driver
\* and rider when it starts, calls the engine, and the engine waits inside
\* requests.get for each answer of the oracle.  One step below is the part of
\* a handler between two such waits.

\* a click on the Add or the Remove button
Click ==
  /\ \E op \in {"add", "remove"} :
       /\ Len(events) < MaxEvents
       /\ events' = Append(events, op)
  /\ UNCHANGED <<drivers, riders, rides, failed_attempts, last, stack, candidates>>

\* an oracle request that lets the event loop run while it waits
CanDispatch_Nested == TRUE

\* requests.get blocks the GUI thread, so the event loop takes the next
\* click only when no handler is running
CanDispatch == stack = <<>>

\* the riders update_rider_dropdown lists for driver d
InDropdown(d, r) ==
  /\ riders[r].workplace = drivers[d].workplace
  /\ (riders[r].ride = NoRide \/ r \in SeqToSet(rides[d].riders))

\* The end of a handler once the engine call has returned: the reporting
\* read of capture_ride_info and, after a declined add, failed_attempts.clear()
Finish(op, result, reasons, calls, ride) ==
  /\ failed_attempts' =
       IF op = "add" /\ ~result THEN <<>>
       ELSE IF DisplayRaises(ride) THEN failed_attempts \o reasons ELSE <<>>
  /\ last' = [op |-> op, result |-> result, raised |-> FALSE, calls |-> calls]

\* the engine call f returns False
Decline(f, reasons) ==
  /\ Finish(f.op, FALSE, reasons, f.calls, rides[f.d])
  /\ stack' = Tail(stack)
  /\ UNCHANGED <<drivers, riders, rides>>

\* the engine call f sets the references and returns True (lines 398-402, 437-441)
Commit(f, ride) ==
  /\ rides' = [rides EXCEPT ![f.d] = ride]
  /\ riders' = Stamp(f.d, ride, IF f.op = "add" THEN {f.r} ELSE {},
                     IF f.op = "remove" THEN {f.r} ELSE {})
  /\ drivers' = StampDriver(f.d, ride)
  /\ stack' = Tail(stack)
  /\ Finish(f.op, TRUE, <<>>, f.calls, ride)

\* Store that sets the ride references before the road-snap request
Store_StampsFirst(f, route) ==
  LET written == update_ride_fields(rides[f.d], f.new_riders, route,
                                    rides[f.d].direct_duration)
  IN IF UpdateCalls(route) # <<>>
     THEN /\ rides' = [rides EXCEPT ![f.d] = written]
          /\ riders' = Stamp(f.d, written, IF f.op = "add" THEN {f.r} ELSE {},
                             IF f.op = "remove" THEN {f.r} ELSE {})
          /\ stack' = <<[f EXCEPT !.pc = "road_snap", !.route = route,
                                  !.calls = f.calls \o <<"road_snap">>]>> \o Tail(stack)
          /\ last' = [op |-> "call"]
          /\ UNCHANGED <<drivers, failed_attempts>>
     ELSE Commit(f, [written EXCEPT !.matched_geometry = MatchedGeometry(route, Unasked)])

\* the engine call f has a route it accepts and calls update_ride: the
\* fields are written and, for a route with a geometry, the road-snap
\* request is made
Store(f, route) ==
  LET written == update_ride_fields(rides[f.d], f.new_riders, route,
                                    rides[f.d].direct_duration)
  IN IF UpdateCalls(route) # <<>>
     THEN /\ rides' = [rides EXCEPT ![f.d] = written]
          /\ stack' = <<[f EXCEPT !.pc = "road_snap", !.route = route,
                                  !.calls = f.calls \o <<"road_snap">>]>> \o Tail(stack)
          /\ last' = [op |-> "call"]
          /\ UNCHANGED <<drivers, riders, failed_attempts>>
     ELSE Commit(f, [written EXCEPT !.matched_geometry = MatchedGeometry(route, Unasked)])

\* a call of the engine that waits for the answer to the request pc
Frame(op, d, r, pc, new_riders, max_allowed_duration) ==
  [op |-> op, d |-> d, r |-> r, pc |-> pc, new_riders |-> new_riders,
   max_allowed_duration |-> max_allowed_duration,
   route |-> [geometry |-> <<>>], calls |-> <<pc>>]

\* on_add_rider up to the request of add_rider_to_ride (lines 372-390)
BeginAdd(d, r) ==
  LET ride == rides[d]
      pre == AddPrecheck(d, r)
      new_riders == Append(ride.riders, r)
  IN IF pre # "" THEN
       /\ Finish("add", FALSE, <<pre>>, <<>>, ride)
       /\ UNCHANGED <<drivers, riders, rides, stack>>
     ELSE IF ~OptimizedContacts(Coordinates(ride, new_riders)) THEN
       /\ Finish("add", FALSE, <<"exceeds_max_detour">>, <<>>, ride)
       /\ UNCHANGED <<drivers, riders, rides, stack>>
     ELSE
       /\ stack' = <<Frame("add", d, r, "optimized_route", new_riders,
                           ride.direct_duration + drivers[ride.driver].max_detour_minutes)>>
                   \o stack
       /\ last' = [op |-> "call"]
       /\ UNCHANGED <<drivers, riders, rides, failed_attempts>>

\* on_remove_rider up to the request of remove_rider_from_ride (lines 410-431)
BeginRemove(d, r) ==
  LET ride == rides[d]
      new_riders == SelectOthers(ride.riders, r)
      coordinates == Coordinates(ride, new_riders)
  IN IF Len(coordinates) # 2 /\ ~OptimizedContacts(coordinates) THEN
       /\ Finish("remove", FALSE, <<>>, <<>>, ride)
       /\ UNCHANGED <<drivers, riders, rides, stack>>
     ELSE
       /\ stack' = <<Frame("remove", d, r,
                           IF Len(coordinates) = 2 THEN "direct_route" ELSE "optimized_route",
                           new_riders, 0)>>
                   \o stack
       /\ last' = [op |-> "call"]
       /\ UNCHANGED <<drivers, riders, rides, failed_attempts>>

\* The event loop hands the next click to its handler, which reads the
\* selection: a rider of the dropdown that is not in the Ride for Add, one
\* that is in the Ride for Remove (the handlers return on any other).
Dispatch ==
  /\ CanDispatch
  /\ events # <<>>
  /\ events' = Tail(events)
  /\ UNCHANGED candidates
  /\ \E d \in Drivers, r \in Riders :
       /\ InDropdown(d, r)
       /\ IF Head(events) = "add"
          THEN r \notin SeqToSet(rides[d].riders) /\ BeginAdd(d, r)
          ELSE r \in SeqToSet(rides[d].riders) /\ BeginRemove(d, r)

\* optimized_route answers the innermost engine call (lines 390-397, 431-436)
OptimizedReturns ==
  /\ stack # <<>>
  /\ Head(stack).pc = "optimized_route"
  /\ UNCHANGED <<events, candidates>>
  /\ \E reply \in OptimizedReplies(Len(Head(stack).new_riders) + 2) :
       LET f == Head(stack)
           new_route == calculate_optimized_route(
                          Coordinates(rides[f.d], f.new_riders), reply)
       IN IF new_route.status = "raise" THEN
            Decline(f, IF f.op = "add" THEN <<"error">> ELSE <<>>)
          ELSE IF new_route.status = "none"
                    \/ (f.op = "add" /\ ExceedsDetour(new_route.value.duration,
                                                      f.max_allowed_duration)) THEN
            Decline(f, IF f.op = "add" THEN <<"exceeds_max_detour">> ELSE <<>>)
          ELSE Store(f, new_route.value)

\* direct_route answers the innermost engine call (lines 418-436)
DirectReturns ==
  /\ stack # <<>>
  /\ Head(stack).pc = "direct_route"
  /\ UNCHANGED <<events, candidates>>
  /\ \E reply \in DirectReplies :
       LET f == Head(stack)
           direct == calculate_direct_route(rides[f.d].start, rides[f.d].destination, reply)
       IN IF direct.status # "ok" THEN Decline(f, <<>>)
          ELSE Store(f, [distance |-> direct.value.distance,
                         duration |-> direct.value.duration,
                         waypoint_indices |-> <<0, 1>>,
                         leg_durations |-> <<direct.value.duration>>,
                         geometry |-> direct.value.geometry,
                         matched_geometry |-> direct.value.geometry])

\* the road-snap request of update_ride is answered (lines 216-220)
SnapReturns ==
  /\ stack # <<>>
  /\ Head(stack).pc = "road_snap"
  /\ UNCHANGED <<events, candidates>>
  /\ \E snap \in SnapReplies(SwapAxes(Head(stack).route.geometry)) :
       LET f == Head(stack)
       IN Commit(f, [rides[f.d] EXCEPT
                       !.matched_geometry = MatchedGeometry(f.route, snap)])

CallNext == Click \/ Dispatch \/ OptimizedReturns \/ DirectReturns \/ SnapReturns

CallSpec == Init /\ [][CallNext]_vars

\* ------------------------------------------------------------------ overlapping calls
\* RideManager takes no lock and keeps no record of the calls in progress.  A
\* caller that runs its handlers on several threads therefore has several
\* engine calls waiting in requests.get at once; stack then holds the calls in
\* progress, and its head is the call whose answer arrives next.

\* a thread enters add_rider_to_ride while other calls wait for the oracle
Call ==
  /\ Len(stack) < MaxCallers
  /\ UNCHANGED <<events, candidates>>
  /\ \E d \in Drivers, r \in Riders : BeginAdd(d, r)

\* the answer to another waiting call arrives first
Switch ==
  /\ Len(stack) > 1
  /\ stack' = Tail(stack) \o <<Head(stack)>>
  /\ UNCHANGED <<drivers, riders, rides, failed_attempts, last, events, candidates>>

OverlapNext == Call \/ Switch \/ OptimizedReturns \/ SnapReturns

OverlapSpec == Init /\ [][OverlapNext]_vars

\* ------------------------------------------------------------------ a large pool
\* A pool whose riders all work where the drivers do, each at a home of its
\* own, and whose driver d1 offers MaxPool seats: more than an optimized-trips
\* request can carry.  The callers add the riders in pool order.
PoolNames ==
  <<"p01", "p02", "p03", "p04", "p05", "p06", "p07", "p08", "p09", "p10",
    "p11", "p12", "p13", "p14">>

Colleagues == {PoolNames[i] : i \in 1..MaxPool}

ColleagueHome(r) == <<30 + (CHOOSE i \in 1..MaxPool : PoolNames[i] = r), 1>>

LargeInit ==
  /\ drivers = [d \in Drivers |->
                  [workplace |-> WorkplaceOf(d),
                   max_detour_minutes |-> IF d = "d1" THEN 1 ELSE 0,
                   max_riders |-> IF d = "d1" THEN MaxPool ELSE 1,
                   ride |-> d]]
  /\ rides = [d \in Drivers |-> SoloRide(d)]
  /\ riders = [r \in Colleagues |->
                 [workplace |-> WorkplaceOf(r), home |-> ColleagueHome(r), ride |-> NoRide]]
  /\ failed_attempts = <<>>
  /\ last = [op |-> "init"]
  /\ events = <<>>
  /\ stack = <<>>
  /\ candidates = <<>>

\* a visiting order of n stops that is not its own inverse when n >= 5: the
\* rider stops moved one place on, the last of them to the front
Rotated(n) ==
  [i \in 1..n |-> IF i = 1 \/ i = n THEN i - 1 ELSE ((i - 1) % (n - 2)) + 1]

\* Replies to the optimized-trips request of an add to Ride d: a failure, a
\* trip of the solo duration in input order, and a trip one minute longer
\* that visits the riders in rotated order.
LargeReplies(d, r) ==
  LET n == Len(rides[d].riders) + 3
  IN IF AddPrecheck(d, r) = "" /\ OptimizedContacts(Coordinates(rides[d], Append(rides[d].riders, r)))
     THEN {[kind |-> "error"],
           Trip(2, 5, GeomA, Identity(n), n - 1),
           Trip(3, 5, GeomA, Rotated(n), n - 1)}
     ELSE {Unasked}

\* the first rider of the pool without a ride
NextColleague ==
  PoolNames[CHOOSE i \in 1..MaxPool :
              /\ riders[PoolNames[i]].ride = NoRide
              /\ \A j \in 1..(i - 1) : riders[PoolNames[j]].ride # NoRide]

LargeAddStep ==
  /\ UNCHANGED <<events, stack, candidates>>
  /\ \E i \in 1..MaxPool : riders[PoolNames[i]].ride = NoRide
  /\ \E d \in Drivers :
       \E reply \in LargeReplies(d, NextColleague) :
         \E snap \in AddSnaps(d, NextColleague, reply) :
           add_rider_to_ride(d, NextColleague, reply, snap)

LargeNext == LargeAddStep \/ DisplayStep

LargeSpec == LargeInit /\ [][LargeNext]_vars

\* ------------------------------------------------------------------ properties
RidersOf(d) == SeqToSet(rides[d].riders)
RideFull(d) == Len(rides[d].riders) >= drivers[d].max_riders

\* C1: a rider's ride reference is a Ride exactly when the rider is in that
\* Ride's rider list (so it is None exactly when the rider is in no list).
C1_BackReferenceConsistent ==
  \A r \in Riders : \A d \in Drivers : (riders[r].ride = d) <=> (r \in RidersOf(d))

\* a successful remove has left one rider in a ride and one without
C1_Witness ==
  /\ last.op = "remove" /\ last.result
  /\ \E r \in Riders : riders[r].ride # NoRide
  /\ \E r \in Riders : riders[r].ride = NoRide /\ riders[r].workplace = drivers["d1"].workplace

\* C2: the rider list of every Ride holds between 0 and max_riders riders.
C2_CapacityRespected ==
  \A d \in Drivers :
    /\ 0 <= Len(rides[d].riders)
    /\ Len(rides[d].riders) <= drivers[rides[d].driver].max_riders

\* a successful add has filled a Ride of two seats
C2_Witness ==
  /\ last.op = "add" /\ last.result
  /\ \E d \in Drivers : drivers[d].max_riders = 2 /\ Len(rides[d].riders) = 2

\* C3: an add_rider_to_ride call that returns False returns normally and
\* leaves every Ride, every rider's ride reference and the drivers' ride
\* references as they were before the call.
C3_DeclinedAddChangesNothing ==
  [][(last'.op = "add" /\ ~last'.result)
       => (~last'.raised /\ UNCHANGED <<rides, riders, drivers>>)]_vars

\* an add was declined after the oracle had been asked, on a Ride with a rider
C3_Witness ==
  /\ last.op = "add" /\ ~last.result /\ last.calls = <<"optimized_route">>
  /\ failed_attempts = <<"exceeds_max_detour">>
  /\ \E d \in Drivers : Len(rides[d].riders) = 1 /\ drivers[d].max_riders = 2

\* C4: a remove_rider_from_ride call that returns False leaves every Ride and
\* every ride reference unchanged; when it failed on the route recomputation
\* the rider is still in the Ride and still refers to it.
C4_DeclinedRemoveChangesNothing ==
  /\ [][(last'.op = "remove" /\ ~last'.result)
          => (~last'.raised /\ UNCHANGED <<rides, riders, drivers>>)]_vars
  /\ [](\A d \in Drivers, r \in Riders :
          \A direct_reply \in RemoveDirectReplies(d, r), reply \in RemoveReplies(d, r) :
            \A snap \in RemoveSnaps(d, r, direct_reply, reply) :
              LET out == RemoveOut(d, r, direct_reply, reply, snap)
              IN (~out.result /\ out.calls # <<>>)
                   => /\ r \in SeqToSet(out.ride.riders)
                      /\ out.riders[r].ride = d
                      /\ out.ride = rides[d] /\ out.riders = riders)

\* a remove failed on the recomputation of the route for the remaining rider
C4_Witness ==
  /\ last.op = "remove" /\ ~last.result /\ last.calls = <<"optimized_route">>
  /\ \E d \in Drivers : Len(rides[d].riders) = 2

\* C5: an add that passes the three checks and obtains a route is accepted
\* when the route's duration equals direct_duration + max_detour_minutes and
\* declined when the duration is greater.
C5_BudgetBoundaryInclusive ==
  \A d \in Drivers, r \in Riders :
    \A reply \in AddReplies(d, r) :
      \A snap \in AddSnaps(d, r, reply) :
        LET coordinates == Coordinates(rides[d], Append(rides[d].riders, r))
            new_route == calculate_optimized_route(coordinates, reply)
            budget == rides[d].direct_duration + drivers[d].max_detour_minutes
            out == AddOut(d, r, reply, snap)
        IN (/\ riders[r].workplace = drivers[d].workplace
            /\ riders[r].ride = NoRide
            /\ Len(rides[d].riders) < drivers[d].max_riders
            /\ new_route.status = "ok")
           => /\ (new_route.value.duration = budget)
                   => (out.result /\ out.ride.riders = Append(rides[d].riders, r))
              /\ (new_route.value.duration > budget)
                   => (~out.result /\ out.ride.riders = rides[d].riders)

\* the first rider of d1 was accepted with a positive detour equal to the budget
C5_Witness ==
  /\ last.op = "add" /\ last.result
  /\ rides["d2"].riders = <<>>
  /\ Len(rides["d1"].riders) = 1
  /\ drivers["d1"].max_detour_minutes > 0
  /\ rides["d1"].duration = rides["d1"].direct_duration + drivers["d1"].max_detour_minutes

\* C6: a rider is in at most one Ride's rider list and at most once in it, and
\* an add of a rider whose ride reference is set is declined, whichever Ride
\* it is asked for and whatever the oracle would answer.
C6_AtMostOneRide ==
  /\ \A r \in Riders :
       /\ Cardinality({d \in Drivers : r \in RidersOf(d)}) <= 1
       /\ \A d \in Drivers :
            Cardinality({i \in 1..Len(rides[d].riders) : rides[d].riders[i] = r}) <= 1
  /\ \A d \in Drivers, r \in Riders :
       \A reply \in OptimizedReplies(Len(rides[d].riders) + 3) :
         \A snap \in SnapReplies(SwapAxes(GeomB)) :
           LET out == AddOut(d, r, reply, snap)
           IN riders[r].ride # NoRide
                => (~out.result /\ out.ride = rides[d] /\ out.riders = riders)

\* an assigned rider was refused while both Rides had a free seat
C6_Witness ==
  /\ last.op = "add" /\ ~last.result
  /\ failed_attempts = <<"already_has_ride">>
  /\ \A d \in Drivers : Len(rides[d].riders) < drivers[d].max_riders
  /\ \E r \in Riders : riders[r].ride # NoRide

\* C7: every rider in a Ride's rider list works where the Ride's driver works.
C7_SameWorkplace ==
  \A d \in Drivers : \A r \in RidersOf(d) :
    riders[r].workplace = drivers[rides[d].driver].workplace

\* a rider of another workplace was refused by a Ride that carries a rider
C7_Witness ==
  /\ last.op = "add" /\ ~last.result
  /\ failed_attempts = <<"workplace_mismatch">>
  /\ \A d \in Drivers : rides[d].riders # <<>>

\* C8: the detour of every Ride is never negative; it is the stored route's
\* duration minus direct_duration when that is positive, and 0 otherwise.
C8_DetourFormula ==
  \A d \in Drivers :
    LET duration == rides[d].route.duration
    IN /\ rides[d].duration = duration
       /\ rides[d].detour >= 0
       /\ (duration > rides[d].direct_duration
             => rides[d].detour = duration - rides[d].direct_duration)
       /\ (~(duration > rides[d].direct_duration) => rides[d].detour = 0)

\* one Ride has a positive detour while another has a route shorter than
\* its driver's direct route
C8_Witness ==
  /\ \E d \in Drivers : rides[d].riders # <<>> /\ rides[d].detour > 0
  /\ \E d \in Drivers : rides[d].riders # <<>> /\ rides[d].duration < rides[d].direct_duration

\* the checks of add_rider_to_ride, as the claims name them
WorkplaceMismatch(d, r) == riders[r].workplace # drivers[d].workplace
AlreadyAssigned(r) == riders[r].ride # NoRide

\* C9: a declined add records exactly one reason, that of the first failing
\* check in the order workplace, already assigned, capacity, route and detour.
C9_FirstFailingCheckWins ==
  /\ [][(last'.op = "add" /\ ~last'.result)
          => /\ Len(failed_attempts') = Len(failed_attempts) + 1
             /\ SubSeq(failed_attempts', 1, Len(failed_attempts)) = failed_attempts]_vars
  /\ [](\A d \in Drivers, r \in Riders :
          \A reply \in OptimizedReplies(Len(rides[d].riders) + 3) :
            \A snap \in SnapReplies(SwapAxes(GeomB)) :
              LET out == AddOut(d, r, reply, snap)
                  new_route == calculate_optimized_route(
                                 Coordinates(rides[d], Append(rides[d].riders, r)), reply)
              IN ~out.result
                   => out.reasons =
                        IF WorkplaceMismatch(d, r) THEN <<"workplace_mismatch">>
                        ELSE IF AlreadyAssigned(r) THEN <<"already_has_ride">>
                        ELSE IF RideFull(d) THEN <<"ride_full">>
                        ELSE IF new_route.status = "raise" THEN <<"error">>
                        ELSE <<"exceeds_max_detour">>)

\* a rider of another workplace was refused for that reason while every Ride
\* was full
C9_Witness ==
  /\ last.op = "add" /\ ~last.result
  /\ failed_attempts = <<"workplace_mismatch">>
  /\ \A d \in Drivers : RideFull(d)

\* C10: an add to a Ride that holds max_riders riders is declined for every
\* candidate and every oracle reply, without any request to the oracle.
C10_FullRideDeclinesUnasked ==
  \A d \in Drivers, r \in Riders :
    Len(rides[d].riders) = drivers[d].max_riders
      => \A reply \in OptimizedReplies(Len(rides[d].riders) + 3) :
           \A snap \in SnapReplies(SwapAxes(GeomB)) :
             LET out == AddOut(d, r, reply, snap)
             IN /\ ~out.result /\ ~out.raised
                /\ out.calls = <<>>
                /\ out.ride = rides[d] /\ out.riders = riders /\ out.drivers = drivers

\* an unassigned rider of the right workplace was refused by a full Ride
C10_Witness ==
  /\ last.op = "add" /\ ~last.result /\ last.calls = <<>>
  /\ failed_attempts = <<"ride_full">>
  /\ \E d \in Drivers : rides[d].riders # <<>> /\ RideFull(d)
  /\ \E r \in Riders : riders[r].ride = NoRide /\ riders[r].workplace = drivers["d1"].workplace

\* the sole rider r of Ride d is removed: the outcome of the call for every
\* answer of the oracle, an answer to an optimized-trips request included
SoleRemovals(d, r) ==
  {RemoveOut(d, r, direct_reply, reply, snap) :
     direct_reply \in DirectReplies, reply \in OptimizedReplies(2),
     snap \in SnapReplies(SwapAxes(GeomA))}

\* C11 as stated: a successful remove of the sole rider asks direct_route and
\* not optimized_route and leaves 0 riders, waypoint_order [0, 1], one leg
\* duration and a detour of 0.
C11_SoleRemoveGivesZeroDetour ==
  \A d \in Drivers, r \in Riders :
    rides[d].riders = <<r>>
      => \A out \in SoleRemovals(d, r) :
           out.result
             => /\ out.calls[1] = "direct_route"
                /\ "optimized_route" \notin SeqToSet(out.calls)
                /\ out.ride.riders = <<>>
                /\ out.ride.waypoint_order = <<0, 1>>
                /\ Len(out.ride.leg_durations) = 1
                /\ out.ride.detour = 0

\* C11 (amended): a successful remove of the sole rider asks direct_route and
\* not optimized_route and leaves 0 riders, waypoint_order [0, 1] and one leg
\* duration, the duration direct_route answered; the detour is that duration
\* minus the direct_duration kept from construction when it is longer, and 0
\* when it is not.
C11_SoleRemoveAsksDirectRoute ==
  \A d \in Drivers, r \in Riders :
    rides[d].riders = <<r>>
      => \A out \in SoleRemovals(d, r) :
           out.result
             => /\ out.calls[1] = "direct_route"
                /\ "optimized_route" \notin SeqToSet(out.calls)
                /\ out.ride.riders = <<>>
                /\ out.ride.waypoint_order = <<0, 1>>
                /\ out.ride.leg_durations = <<out.ride.duration>>
                /\ out.ride.direct_duration = rides[d].direct_duration
                /\ (out.ride.duration > rides[d].direct_duration
                      => out.ride.detour = out.ride.duration - rides[d].direct_duration)
                /\ (out.ride.duration <= rides[d].direct_duration => out.ride.detour = 0)

\* the sole rider of a Ride has been removed and the Ride is left without
\* riders on a route longer than the driver's direct route was at construction
C11_Witness ==
  /\ last.op = "remove" /\ last.result /\ last.calls[1] = "direct_route"
  /\ \E d \in Drivers :
       /\ rides[d].riders = <<>> /\ rides[d].waypoint_order = <<0, 1>>
       /\ rides[d].duration > rides[d].direct_duration

\* what direct_route answered when the drivers were constructed
ConstructionReply == SoloReply(CHOOSE t \in DirectDurations : TRUE)

\* C12: when direct_route answers as it did at the driver's construction, a
\* successful remove of the only rider of a Ride leaves a Ride whose route
\* record (distance, duration, geometry, waypoint order, leg durations),
\* detour and rider list are those of the solo Ride made at construction.
C12_RemoveRestoresSoloRoute ==
  \A d \in Drivers, r \in Riders :
    rides[d].riders = <<r>>
      => \A snap \in SnapReplies(SwapAxes(GeomA)) :
           LET out == RemoveOut(d, r, ConstructionReply, Unasked, snap)
               solo == SoloRide(d)
           IN /\ out.result
              /\ out.ride.route = solo.route
              /\ out.ride.distance = solo.distance
              /\ out.ride.duration = solo.duration
              /\ out.ride.route.geometry = solo.route.geometry
              /\ out.ride.waypoint_order = solo.waypoint_order
              /\ out.ride.leg_durations = solo.leg_durations
              /\ out.ride.detour = solo.detour
              /\ out.ride.riders = solo.riders
              /\ out.ride.stops = solo.stops

\* the only rider of d1's Ride was removed and the Ride carries the route it
\* had at construction again, while d2's Ride carries a rider
C12_Witness ==
  /\ last.op = "remove" /\ last.result /\ last.calls[1] = "direct_route"
  /\ rides["d1"].riders = <<>>
  /\ rides["d1"].route = SoloRide("d1").route
  /\ rides["d1"].leg_durations = SoloRide("d1").leg_durations
  /\ rides["d1"].detour = 0
  /\ rides["d2"].riders # <<>>

\* C13: calculate_matching_score returns a value between 0 and 1 for every
\* driver, rider and oracle reply, and returns 0 when the rider works
\* elsewhere than the driver or has a ride, whatever the Ride's geometry is.
C13_ScoreInUnitInterval ==
  \A d \in Drivers, r \in Riders :
    \A reply \in OptimizedReplies(Len(rides[d].riders) + 3) :
      LET out == ScoreOut(d, r, reply)
      IN /\ ~out.raised
         /\ 0 <= out.result /\ out.result <= Unit
         /\ (WorkplaceMismatch(d, r) \/ AlreadyAssigned(r)) => out.result = 0

\* a candidate has scored 1.0 for a Ride that carries a rider over a
\* road-snapped geometry, while another rider has a ride
C13_Witness ==
  /\ last.op = "score" /\ last.result = Unit
  /\ \E d \in Drivers :
       rides[d].riders # <<>> /\ rides[d].matched_geometry = GeomSnapped
  /\ \E r \in Riders : riders[r].ride = NoRide /\ ~WorkplaceMismatch("d1", r)

\* C14: for a rider who works elsewhere than the driver, whether or not the
\* rider has a ride or the Ride is full, calculate_matching_score returns 0
\* and add_rider_to_ride is declined with the workplace-mismatch reason, and
\* neither call sends a request to the oracle.
C14_MismatchNeverReachesOracle ==
  \A d \in Drivers, r \in Riders :
    WorkplaceMismatch(d, r)
      => \A reply \in OptimizedReplies(Len(rides[d].riders) + 3) :
           LET score == ScoreOut(d, r, reply)
               out == AddOut(d, r, reply, [kind |-> "matchings", geometry |-> GeomSnapped])
           IN /\ score.result = 0 /\ score.calls = <<>>
              /\ ~out.result /\ out.calls = <<>>
              /\ out.reasons = <<"workplace_mismatch">>
              /\ out.ride = rides[d] /\ out.riders = riders

\* a rider of the other workplace was refused for that reason at a moment
\* when every rider had a ride and every Ride was full
C14_Witness ==
  /\ last.op = "add" /\ ~last.result /\ last.calls = <<>>
  /\ failed_attempts = <<"workplace_mismatch">>
  /\ \A r \in Riders : AlreadyAssigned(r)
  /\ \A d \in Drivers : RideFull(d)

\* C15: calculate_matching_score changes no persistent state: whatever it
\* returns and whatever the oracle answered, every Ride, every rider's and
\* driver's ride reference and failed_attempts are as they were before the call.
C15_ScoreChangesNothing ==
  /\ [][last'.op = "score"
          => UNCHANGED <<rides, riders, drivers, failed_attempts>>]_vars
  /\ [](\A d \in Drivers, r \in Riders :
          \A reply \in OptimizedReplies(Len(rides[d].riders) + 3) :
            LET out == ScoreOut(d, r, reply)
            IN /\ out.ride = rides[drivers[d].ride]
               /\ out.riders = riders /\ out.drivers = drivers
               /\ out.reasons = <<>>)

\* a scoring call came back with 0 after it had asked the oracle, for a
\* driver whose Ride carries a rider
C15_Witness ==
  /\ last.op = "score" /\ last.result = 0 /\ last.calls = <<"optimized_route">>
  /\ Len(rides["d1"].riders) = 1
  /\ rides["d1"].detour > 0

C17_NoWriteBeforeAnyAnswer ==
  [][stack' # <<>> => UNCHANGED <<rides, riders, drivers>>]_vars

\* C17 (amended): no Ride and no ride reference is written before the answer
\* to the route request (optimized_route or direct_route) has been received
\* and accepted; when the road-snap request is made the Ride's rider list and
\* route are already written, while its matched_geometry and every rider's and
\* driver's ride reference still hold the values from before the operation.
C17_NoWriteBeforeRouteAccepted ==
  /\ [][(stack' # <<>> /\ Head(stack').pc # "road_snap")
          => UNCHANGED <<rides, riders, drivers>>]_vars
  /\ [][(stack' # <<>> /\ Head(stack').pc = "road_snap")
          => /\ UNCHANGED <<riders, drivers>>
             /\ \A d \in Drivers :
                  /\ rides'[d].matched_geometry = rides[d].matched_geometry
                  /\ d # Head(stack').d => rides'[d] = rides[d]
             /\ rides'[Head(stack').d].riders = Head(stack').new_riders
             /\ rides'[Head(stack').d].route = Head(stack').route]_vars

\* an add waits for the road-snap answer: the rider is in the Ride's list
\* and has no ride reference yet
C17_Witness ==
  /\ stack # <<>>
  /\ Head(stack).pc = "road_snap" /\ Head(stack).op = "add"
  /\ Head(stack).r \in RidersOf(Head(stack).d)
  /\ riders[Head(stack).r].ride = NoRide

\* C18 as stated: an add declined because the route query failed reports a
\* reason different from the one reported when the route was obtained and
\* its duration exceeds the detour budget.
C18_RouteUnavailableIsDistinct ==
  \A d \in Drivers, r \in Riders :
    AddPrecheck(d, r) = ""
      => \A failed \in OptimizedReplies(Len(rides[d].riders) + 3),
            late \in OptimizedReplies(Len(rides[d].riders) + 3) :
           LET coordinates == Coordinates(rides[d], Append(rides[d].riders, r))
               no_route == calculate_optimized_route(coordinates, failed)
               new_route == calculate_optimized_route(coordinates, late)
               budget == rides[d].direct_duration + drivers[d].max_detour_minutes
               snap == [kind |-> "matchings", geometry |-> GeomSnapped]
           IN (/\ no_route.status = "none"
               /\ new_route.status = "ok"
               /\ new_route.value.duration > budget)
                => /\ ~AddOut(d, r, failed, snap).result
                   /\ ~AddOut(d, r, late, snap).result
                   /\ AddOut(d, r, failed, snap).reasons # AddOut(d, r, late, snap).reasons

\* C19 as stated: a failed remove_rider_from_ride records a reason for its
\* failure, as a failed add does.
C19_FailedRemoveRecordsReason ==
  [][(last'.op = "remove" /\ ~last'.result)
       => Len(failed_attempts') > Len(failed_attempts)]_vars

\* C20: in every Ride, at construction and after every add or remove,
\* waypoint_order has as many entries as the Ride has riders plus two; an
\* optimized_route reply whose waypoint count differs from the number of
\* coordinates sent makes the add or the remove fail and is not stored.
C20_WaypointOrderMatchesRiders ==
  /\ \A d \in Drivers : Len(rides[d].waypoint_order) = Len(rides[d].riders) + 2
  /\ \A d \in Drivers, r \in Riders :
       LET short == Trip(2, 5, GeomA, Identity(Len(rides[d].riders) + 1),
                         Len(rides[d].riders) + 1)
           long == Trip(2, 5, GeomA, Identity(Len(rides[d].riders) + 3),
                        Len(rides[d].riders) + 1)
           snap == [kind |-> "matchings", geometry |-> GeomSnapped]
       IN /\ LET out == AddOut(d, r, short, snap)
             IN ~out.result /\ out.ride = rides[d] /\ out.riders = riders
          /\ LET out == RemoveOut(d, r, Unasked, long, snap)
             IN Len(rides[d].riders) > 1
                  => (~out.result /\ out.ride = rides[d] /\ out.riders = riders)

\* a rider was removed from a Ride of two, and the Ride carries the route
\* optimized_route returned for the rider who stays
C20_Witness ==
  /\ last.op = "remove" /\ last.result /\ last.calls[1] = "optimized_route"
  /\ \E d \in Drivers :
       Len(rides[d].riders) = 1 /\ Len(rides[d].waypoint_order) = 3

\* C21 as stated: every Ride has one leg duration per pair of consecutive
\* stops, len(leg_durations) = len(riders) + 1, because a reply whose leg
\* count differs from the number of coordinates minus one is not stored.
C21_LegCountMatchesRiders ==
  \A d \in Drivers : Len(rides[d].leg_durations) = Len(rides[d].riders) + 1

\* w is a permutation of 0..n-1 that keeps the source first and the
\* destination last
IsFixedEndsPermutation(w, n) ==
  /\ Len(w) = n
  /\ SeqToSet(w) = 0..(n - 1)
  /\ w[1] = 0 /\ w[n] = n - 1

\* waypoint orders a Ride of n stops may be asked to project: every sequence
\* of n stop indices that starts at the source and ends at the destination
\* (the permutations that keep the ends, and sequences that repeat a stop),
\* the order that swaps the ends, and sequences one entry short, one entry
\* long and empty
WaypointOrders(n) ==
  {<<0>> \o [i \in 1..(n - 2) |-> mid[i + 1]] \o <<n - 1>> :
     mid \in [2..(n - 1) -> 1..(n - 2)]}
  \cup {[i \in 1..n |-> n - i], Identity(n - 1), Identity(n + 1), <<>>}

\* C22: get_ordered_stops returns the stops driver, riders in list order,
\* workplace reordered by waypoint_order when waypoint_order has
\* len(riders) + 2 entries, and in input order otherwise; when waypoint_order
\* is a permutation that keeps the first and the last stop in place, the
\* result holds every stop exactly once, the driver first and the workplace
\* last.
C22_OrderedStopsProjection ==
  \A d \in Drivers :
    LET n == Len(rides[d].riders) + 2
        names == StopNames(rides[d])
    IN \A w \in WaypointOrders(n) \cup {rides[d].waypoint_order} :
         LET ride == [rides[d] EXCEPT !.waypoint_order = w]
             stops == OrderedNames(ride)
         IN /\ Len(w) = n => stops = [i \in 1..n |-> names[w[i] + 1]]
            /\ Len(w) # n => stops = names
            /\ IsFixedEndsPermutation(w, n)
                 => /\ Len(stops) = n
                    /\ SeqToSet(stops) = SeqToSet(names)
                    /\ \A i, j \in 1..n : stops[i] = stops[j] => i = j
                    /\ stops[1] = rides[d].driver
                    /\ stops[n] = "workplace"

\* the reporting read has projected a Ride of two riders whose stored order
\* visits the second rider before the first
C22_Witness ==
  /\ last.op = "display"
  /\ \E d \in Drivers :
       /\ Len(rides[d].riders) = 2
       /\ rides[d].waypoint_order = <<0, 2, 1, 3>>
       /\ OrderedNames(rides[d])
            = <<d, rides[d].riders[2], rides[d].riders[1], "workplace">>

\* C24: direct_duration is fixed when the Ride is created: in every Ride,
\* after any adds and removes, accepted or declined, it is the duration of
\* the solo route of the driver's construction, and a remove of the last
\* rider keeps it whatever duration direct_route answers this time.
C24_DirectDurationFixed ==
  /\ [](\A d \in Drivers :
          /\ rides[d].direct_duration = SoloRide(d).direct_duration
          /\ rides[d].direct_duration = SoloRide(d).route.duration
          /\ \A r \in Riders :
               rides[d].riders = <<r>>
                 => \A direct_reply \in DirectReplies :
                      RemoveOut(d, r, direct_reply, Unasked, Unasked).ride.direct_duration
                        = SoloRide(d).direct_duration)
  /\ [][\A d \in Drivers :
          rides'[d].direct_duration = rides[d].direct_duration]_vars

\* the last rider of a Ride was removed, direct_route answered a longer
\* duration than at construction, and the other Ride carries a rider on a
\* route shorter than its driver's direct route
C24_Witness ==
  /\ last.op = "remove" /\ last.result /\ last.calls[1] = "direct_route"
  /\ \E d \in Drivers :
       /\ rides[d].riders = <<>>
       /\ rides[d].duration = 3 /\ rides[d].direct_duration = 2
  /\ \E d \in Drivers :
       rides[d].riders # <<>> /\ rides[d].duration < rides[d].direct_duration

\* C25 as stated: when the reporting read display_ride_info returns, the
\* failed_attempts list is empty.
C25_ReadClearsReasons ==
  last.op = "display" => failed_attempts = <<>>

\* the road-snap request failed: the service was unreachable, or its reply
\* lacked a key the client reads
FailedSnaps == {[kind |-> "error"], [kind |-> "malformed"]}

\* C26: a failure of the road-snap call is never a hard error.  An add or a
\* remove whose route request succeeded returns True whether or not the
\* road-snap call fails; with a failed road-snap call it leaves the same rider
\* list, route and ride references as with an answered one, and the Ride's
\* matched_geometry is the raw geometry of the route it stored.
C26_SnapFailureFallsBack ==
  [](LET good == [kind |-> "matchings", geometry |-> GeomSnapped]
      IN \A d \in Drivers, r \in Riders :
           /\ \A reply \in AddReplies(d, r) :
                LET ref == AddOut(d, r, reply, good)
                IN \A snap \in FailedSnaps :
                     LET out == AddOut(d, r, reply, snap)
                     IN /\ out.result = ref.result /\ ~out.raised
                        /\ out.result
                             => /\ out.ride.riders = Append(rides[d].riders, r)
                                /\ out.riders = ref.riders /\ out.riders[r].ride = d
                                /\ out.drivers = ref.drivers
                                /\ out.ride.route = ref.ride.route
                                /\ out.reasons = <<>>
                                /\ out.ride.matched_geometry = out.ride.route.geometry
           /\ \A direct_reply \in RemoveDirectReplies(d, r), reply \in RemoveReplies(d, r) :
                LET ref == RemoveOut(d, r, direct_reply, reply, good)
                IN \A snap \in FailedSnaps :
                     LET out == RemoveOut(d, r, direct_reply, reply, snap)
                     IN /\ out.result = ref.result /\ ~out.raised
                        /\ out.result
                             => /\ out.ride.riders = SelectOthers(rides[d].riders, r)
                                /\ out.riders = ref.riders /\ out.riders[r].ride = NoRide
                                /\ out.drivers = ref.drivers
                                /\ out.ride.route = ref.ride.route
                                /\ out.ride.matched_geometry = out.ride.route.geometry)

\* an add was accepted after its road-snap request had been made, and the
\* Ride carries the raw geometry of a route the service would have moved
C26_Witness ==
  /\ last.op = "add" /\ last.result
  /\ last.calls = <<"optimized_route", "road_snap">>
  /\ \E d \in Drivers :
       /\ rides[d].riders # <<>>
       /\ rides[d].route.geometry = GeomB
       /\ rides[d].matched_geometry = GeomB

\* C29 as stated: in every reachable state the duration of every Ride is at
\* most direct_duration + max_detour_minutes of its driver.
C29_BudgetHoldsAlways ==
  \A d \in Drivers :
    /\ rides[d].duration <= rides[d].direct_duration + drivers[d].max_detour_minutes
    /\ rides[d].detour <= drivers[d].max_detour_minutes

\* ride.duration <= direct_duration + max_detour_minutes, the complement of
\* the test of line 392, and the same in terms of the detour
WithinBudget(ride, d) ==
  /\ ride.duration <= ride.direct_duration + drivers[d].max_detour_minutes
  /\ ride.detour <= drivers[d].max_detour_minutes

\* C29 (amended): the detour budget is enforced when a rider is added.  Every
\* accepted add leaves its Ride with duration <= direct_duration +
\* max_detour_minutes, whatever the Ride's duration was before; a Ride that is
\* within its budget leaves it only by an accepted remove, which stores the
\* route the oracle answers without comparing it with the budget.
C29_BudgetEnforcedOnAdd ==
  /\ [](\A d \in Drivers, r \in Riders :
          \A reply \in AddReplies(d, r) :
            \A snap \in AddSnaps(d, r, reply) :
              LET out == AddOut(d, r, reply, snap)
              IN out.result => WithinBudget(out.ride, d))
  /\ [][\A d \in Drivers :
          (WithinBudget(rides[d], d) /\ ~WithinBudget(rides'[d], d))
            => (last'.op = "remove" /\ last'.result)]_vars
  /\ [][(last'.op = "add" /\ last'.result)
          => \A d \in Drivers :
               rides'[d] # rides[d] => WithinBudget(rides'[d], d)]_vars

\* a rider was added within the budget to one Ride while the other Ride, left
\* without riders by a remove, is over its budget
C29_Witness ==
  /\ last.op = "add" /\ last.result
  /\ \E d \in Drivers : rides[d].riders # <<>> /\ WithinBudget(rides[d], d)
  /\ \E d \in Drivers : rides[d].riders = <<>> /\ ~WithinBudget(rides[d], d)

\* C27 as stated: for every oracle reply that passes the detour check, each
\* of the three sub-scores of calculate_matching_score lies between 0 and 1.
C27_SubScoresInUnitInterval ==
  \A d \in Drivers, r \in Riders :
    \A reply \in ScoreReplies(d, r) :
      LET ride == rides[drivers[d].ride]
          new_route == calculate_optimized_route(
                         Coordinates(ride, Append(ride.riders, r)), reply)
          sub == SubScores(d, r, new_route.value)
      IN (/\ ~ScoreIneligible(d, r)
          /\ new_route.status = "ok"
          /\ new_route.value.duration
               <= ride.direct_duration + drivers[d].max_detour_minutes)
           => /\ 0 <= sub.time_score /\ sub.time_score <= Unit
              /\ 0 <= sub.closest_distance_score /\ sub.closest_distance_score <= Unit
              /\ 0 <= sub.distance_score /\ sub.distance_score <= Unit

\* C30 as stated: whenever calculate_matching_score returns more than 0 for a
\* driver and a rider, add_rider_to_ride called in the same state with the
\* same answer of the oracle succeeds.
C30_PositiveScoreMeansAddSucceeds ==
  \A d \in Drivers, r \in Riders :
    \A reply \in OptimizedReplies(Len(rides[d].riders) + 3) :
      \A snap \in SnapReplies(SwapAxes(GeomB)) :
        ScoreOut(d, r, reply).result > 0 => AddOut(d, r, reply, snap).result

\* C30 (amended): score and assignment agree except on capacity, which the
\* score does not look at.  If calculate_matching_score returns more than 0
\* and the Ride has a free seat, add_rider_to_ride called in the same state
\* with the same answer of the oracle succeeds, whatever the road-snap call
\* does; every rider that add would decline for another reason than a full
\* Ride scores 0, and a rider declined for a full Ride is an unassigned rider
\* of the driver's workplace.
C30_ScoreAgreesWithAddUpToCapacity ==
  \A d \in Drivers, r \in Riders :
    \A reply \in OptimizedReplies(Len(rides[d].riders) + 3) :
      \A snap \in SnapReplies(SwapAxes(GeomB)) :
        LET score == ScoreOut(d, r, reply)
            out == AddOut(d, r, reply, snap)
        IN /\ (score.result > 0 /\ ~RideFull(d)) => out.result
           /\ (~out.result /\ out.reasons # <<"ride_full">>) => score.result = 0
           /\ (~out.result /\ out.reasons = <<"ride_full">>)
                => /\ RideFull(d)
                   /\ ~WorkplaceMismatch(d, r) /\ ~AlreadyAssigned(r)

\* a candidate has scored more than 0 and less than 1 at a moment when one
\* Ride carries a rider and has a free seat, and a rider of the drivers'
\* workplace has no ride
C30_Witness ==
  /\ last.op = "score" /\ last.calls = <<"optimized_route">>
  /\ last.result > 0 /\ last.result < Unit
  /\ \E d \in Drivers : rides[d].riders # <<>> /\ ~RideFull(d)
  /\ \E r \in Riders : ~AlreadyAssigned(r) /\ ~WorkplaceMismatch("d1", r)

\* C28 as stated: when add_rider_to_ride calls for the same rider on two
\* drivers' Rides overlap, then once the calls have returned the rider is in
\* at most one Ride's rider list, and the ride reference of a rider who is in
\* a list points to a Ride that contains the rider.
C28_OverlappingAddsKeepOneRide ==
  stack = <<>>
    => \A r \in Riders :
         /\ Cardinality({d \in Drivers : r \in RidersOf(d)}) <= 1
         /\ (\E d \in Drivers : r \in RidersOf(d))
              => (riders[r].ride # NoRide /\ r \in RidersOf(riders[r].ride))

\* C23: a candidate whose direct route the oracle does not produce never
\* enters the pool, and the loops go on to the next candidate whatever
\* happened to the one before.  Every driver in the pool has a Ride with no
\* riders, waypoint_order [0, 1] and detour 0; every rider in the pool has a
\* direct route and no ride; each pass takes one candidate, admits it exactly
\* when its route was produced, and leaves the candidates admitted before in
\* the pool as they were.
C23_PoolHoldsOnlyValid ==
  /\ [](\A d \in DOMAIN drivers :
          /\ drivers[d].ride = d /\ d \in DOMAIN rides
          /\ rides[d].driver = d
          /\ rides[d].riders = <<>>
          /\ rides[d].waypoint_order = <<0, 1>>
          /\ rides[d].detour = 0)
  /\ [](DOMAIN rides = DOMAIN drivers)
  /\ [](\A r \in DOMAIN riders :
          /\ riders[r].direct_route # None
          /\ riders[r].direct_route.status = "ok"
          /\ riders[r].ride = NoRide)
  /\ [][/\ candidates' = Tail(candidates)
        /\ (Head(candidates) \in (DOMAIN drivers' \cup DOMAIN riders')) <=> last'.served
        /\ \A d \in DOMAIN drivers :
             d \in DOMAIN drivers' /\ drivers'[d] = drivers[d] /\ rides'[d] = rides[d]
        /\ \A r \in DOMAIN riders : r \in DOMAIN riders' /\ riders'[r] = riders[r]]_vars

\* both loops have ended: the first driver and the second rider were dropped,
\* the driver and the riders constructed after them are in the pool
C23_Witness ==
  /\ candidates = <<>>
  /\ DOMAIN drivers = {"d2"}
  /\ DOMAIN riders = {"r1", "r3"}
  /\ rides["d2"].leg_durations = <<rides["d2"].duration>>

\* C31 as stated: waypoint_order[i] being the position at which logical stop
\* i is visited, get_ordered_stops has stop i at position waypoint_order[i]
\* of its result, for every visiting order the oracle stored that keeps the
\* driver first and the workplace last.
C31_StopAtItsWaypointPosition ==
  \A d \in Drivers :
    LET n == Len(rides[d].riders) + 2
        w == rides[d].waypoint_order
        names == StopNames(rides[d])
        stops == OrderedNames(rides[d])
    IN IsFixedEndsPermutation(w, n)
         => \A i \in 1..n : stops[w[i] + 1] = names[i]

\* coordinate lists of the lengths calculate_optimized_route refuses
RefusedCoordinates ==
  {[i \in 1..k |-> <<10 + i, 1>>] : k \in {0, 1, 13, 14}}

\* C33: calculate_optimized_route returns None without a request to the
\* oracle for fewer than 2 and for more than 12 coordinates, whatever the
\* oracle would have answered; no Ride holds more than 10 riders, although
\* its driver offers more seats; and an add to a Ride of 10 riders is
\* declined for every reply, without a request, the Ride, the riders and the
\* drivers unchanged.
C33_CoordinateLimitCapsRide ==
  /\ \A coordinates \in RefusedCoordinates :
       /\ ~OptimizedContacts(coordinates)
       /\ \A reply \in OptimizedReplies(Len(coordinates)) :
            calculate_optimized_route(coordinates, reply) = None
  /\ \A d \in Drivers : Len(rides[d].riders) <= 10
  /\ \A d \in Drivers, r \in DOMAIN riders :
       (Len(rides[d].riders) = 10 /\ AddPrecheck(d, r) = "")
         => \A reply \in OptimizedReplies(13) :
              \A snap \in SnapReplies(SwapAxes(GeomA)) :
                LET out == AddOut(d, r, reply, snap)
                IN /\ ~out.result /\ ~out.raised
                   /\ out.calls = <<>>
                   /\ out.reasons = <<"exceeds_max_detour">>
                   /\ out.ride = rides[d] /\ out.riders = riders
                   /\ out.drivers = drivers

\* the driver offers more than 10 seats, its Ride holds 10 riders, and the
\* add of an eleventh was declined without a request to the oracle
C33_Witness ==
  /\ last.op = "add" /\ ~last.result /\ last.calls = <<>>
  /\ failed_attempts = <<"exceeds_max_detour">>
  /\ \E d \in Drivers :
       /\ drivers[d].max_riders > 10
       /\ Len(rides[d].riders) = 10
       /\ \E r \in DOMAIN riders : AddPrecheck(d, r) = ""

\* list s without its k-th entry
WithoutEntry(s, k) == [i \in 1..(Len(s) - 1) |-> IF i < k THEN s[i] ELSE s[i + 1]]

\* C32: a successful add_rider_to_ride changes the rider list of one Ride to
\* the previous list with a rider appended at the end and leaves the lists
\* of the other Rides alone; a successful remove_rider_from_ride changes it
\* to the previous list without one of its riders, the others in unchanged
\* order.  At all times the Ride is Solo (no rider refers to it, it has no
\* stops) exactly when its list is empty, the driver's ride reference is the
\* Ride created with the driver, and stops holds the riders' homes in list
\* order.
C32_RiderListTransitions ==
  /\ [](\A d \in Drivers :
          /\ drivers[d].ride = d /\ rides[d].driver = d
          /\ rides[d].stops = [i \in 1..Len(rides[d].riders) |-> riders[rides[d].riders[i]].home]
          /\ rides[d].riders = <<>> <=> (\A r \in Riders : riders[r].ride # d)
          /\ rides[d].riders = <<>> <=> rides[d].stops = <<>>)
  /\ [][(last'.op = "add" /\ last'.result)
          => \E d \in Drivers :
               /\ \E r \in Riders :
                    /\ r \notin SeqToSet(rides[d].riders)
                    /\ rides'[d].riders = rides[d].riders \o <<r>>
               /\ Len(rides'[d].riders) = Len(rides[d].riders) + 1
               /\ \A e \in Drivers \ {d} : rides'[e].riders = rides[e].riders]_vars
  /\ [][(last'.op = "remove" /\ last'.result)
          => \E d \in Drivers :
               /\ \E k \in 1..Len(rides[d].riders) :
                    /\ rides'[d].riders = WithoutEntry(rides[d].riders, k)
                    /\ rides[d].riders[k] \notin SeqToSet(rides'[d].riders)
               /\ Len(rides'[d].riders) = Len(rides[d].riders) - 1
               /\ \A e \in Drivers \ {d} : rides'[e].riders = rides[e].riders]_vars

\* a rider was removed from a Ride of two riders, which keeps the other one
\* with its home as the only stop, while the other driver's Ride is Solo
C32_Witness ==
  /\ last.op = "remove" /\ last.result
  /\ last.calls[1] = "optimized_route"
  /\ \E d \in Drivers :
       /\ rides[d].riders = <<"r2">>
       /\ rides[d].stops = <<HomeOf("r2")>>
       /\ riders["r1"].ride = NoRide
  /\ \E d \in Drivers : rides[d].riders = <<>>

====
